---- MODULE Spec2Model ----
(***************************************************************************)
(* Model of the podbotnik answering engine (chatbot.py: PodcastChatbot).   *)
(*                                                                         *)
(* Strings are sequences of one-character strings, so that strip(),        *)
(* tokenisation, slicing and len() are computed and not assumed.  URLs are *)
(* sequences of URL pieces; the empty sequence is the empty string.        *)
(* The Search Index (minsearch.Index) and the Answer Generator (Groq) are  *)
(* external collaborators: the index is an append-only document store with *)
(* a deterministic term-overlap ranking, the generator an oracle that      *)
(* returns some answer or raises.                                          *)
(***************************************************************************)
EXTENDS Integers, Sequences, FiniteSets, TLC

VARIABLES
    episodes,    \* self.episodes: episode_id -> metadata dict
    epOrder,     \* insertion order of the keys of self.episodes (dict order)
    indexDocs,   \* documents held by self.index, in submission order
    log,         \* history: every record an ingestion operation stored
    lastIngest,  \* outcome of the last ingestion operation
    call,        \* per caller: the position and locals of answer_question
    probe,       \* the last application of a helper function: input and output
    host         \* the hosting layer around the chatbot: its global, its last response

vars == <<episodes, epOrder, indexDocs, log, lastIngest, call, probe, host>>

-----------------------------------------------------------------------------
(* Bounds of the model *)

MaxLog == 2       \* records stored over a whole run
MaxFileLen == 2   \* records in one transcripts file

(* Program constants *)

DefaultMaxContext == 3   \* max_context_segments: int = 3
ExcerptLen == 200        \* text[:200]

-----------------------------------------------------------------------------
(* Strings *)

Space == " "

(* not s.strip(): the string holds nothing but whitespace. *)
IsBlank(s) == \A n \in 1..Len(s) : s[n] = Space

Take(s, n) == IF n <= 0 THEN <<>> ELSE SubSeq(s, 1, IF n < Len(s) THEN n ELSE Len(s))

(* The words of a string: its maximal runs of non-space characters. *)
Words(s) ==
    LET IsStart(i) == s[i] # Space /\ (i = 1 \/ s[i - 1] = Space)
        IsEnd(j) == s[j] # Space /\ (j = Len(s) \/ s[j + 1] = Space)
        EndOf(i) == CHOOSE j \in i..Len(s) :
                        IsEnd(j) /\ \A k \in i..j : IsEnd(k) => k = j
    IN  {SubSeq(s, i, EndOf(i)) : i \in {n \in 1..Len(s) : IsStart(n)}}

Get(d, key, default) == IF key \in DOMAIN d THEN d[key] ELSE default

-----------------------------------------------------------------------------
(* Inputs: transcript records as they appear in a transcripts JSON file *)

NoUrl == <<>>
YouTubeUrl == <<"https://", "youtube.com", "/watch", "?", "v=X">>
SpotifyUrl == <<"https://", "spotify.com", "/ep1">>

Rec1 ==
    [episode_id |-> "ep1", episode_title |-> <<"x">>, episode_number |-> 2,
     transcript |-> <<"a", " ", "b">>, video_url |-> YouTubeUrl]

Rec2 ==
    [episode_id |-> "ep1", episode_title |-> <<"y">>, episode_number |-> 1,
     transcript |-> <<"b">>, video_url |-> NoUrl, audio_url |-> SpotifyUrl]

Rec3 ==
    [episode_id |-> "ep2", episode_title |-> <<"x">>, episode_number |-> 2,
     transcript |-> <<"a">>]

RecBad ==
    [episode_id |-> "ep2", episode_title |-> <<"y">>, episode_number |-> 1]

Records == {Rec1, Rec2, Rec3, RecBad}

Required == {"episode_id", "episode_title", "episode_number", "transcript"}

WellFormed(r) == Required \subseteq DOMAIN r

Questions == {<<>>, <<" ">>, <<"a">>, <<"a", " ", "b">>}

Ks == {-1, 0, 1, 2, DefaultMaxContext}

Answers == {"generated answer"}

Errors == {"ConnectionError", "TimeoutError"}

-----------------------------------------------------------------------------
(* Episode Registry: self.episodes *)

EpisodeMeta(title, number, video_url, audio_url, transcript) ==
    [title |-> title, number |-> number, video_url |-> video_url,
     audio_url |-> audio_url, transcript |-> transcript]

(* self.episodes[episode_id] = {...} *)
StoreEpisodeKeepFirst(eps, id, meta) ==
    [x \in (DOMAIN eps) \cup {id} |-> IF x \in DOMAIN eps THEN eps[x] ELSE meta]

StoreEpisodeReplacingAll(eps, id, meta) == [x \in {id} |-> meta]

StoreEpisode(eps, id, meta) ==
    [x \in (DOMAIN eps) \cup {id} |-> IF x = id THEN meta ELSE eps[x]]

(* A dict keeps the position of a key that is assigned again. *)
KeyOrder(order, id) ==
    IF \E n \in 1..Len(order) : order[n] = id THEN order ELSE Append(order, id)

Doc(id, title, number, text) ==
    [episode_id |-> id, episode_title |-> title, episode_number |-> number,
     text |-> text]

-----------------------------------------------------------------------------
(* Search Index (external collaborator) *)

(* index(documents): the documents are added to the ones already held. *)
IndexDocuments(docs, new) == docs \o new

(* Number of query words found in the searched fields, episode_title and text. *)
Score(doc, query) ==
    Cardinality(Words(query) \cap (Words(doc.episode_title) \cup Words(doc.text)))

(* The matching documents, best score first, ties in submission order. *)
Ranked(docs, query) ==
    LET Matching == {n \in 1..Len(docs) : Score(docs[n], query) > 0}
        Before(m, n) ==
            \/ Score(docs[m], query) > Score(docs[n], query)
            \/ Score(docs[m], query) = Score(docs[n], query) /\ m < n
        Rank(n) == Cardinality({m \in Matching : Before(m, n)}) + 1
    IN  [p \in 1..Cardinality(Matching) |->
            docs[CHOOSE n \in Matching : Rank(n) = p]]

(* search(query, fields, max_results): what the index may return.  For    *)
(* max_results >= 1 the first max_results ranked documents; the contract   *)
(* says nothing about max_results <= 0, where any prefix may come back.    *)
SearchOutcomes(docs, query, max_results) ==
    IF max_results >= 1
    THEN {Take(Ranked(docs, query), max_results)}
    ELSE {Take(Ranked(docs, query), n) : n \in 0..Len(Ranked(docs, query))}

-----------------------------------------------------------------------------
(* Ingestion *)

(* The records a load stores before it stops: those before the first      *)
(* record that lacks a required field.                                     *)
RECURSIVE Processed(_)
Processed(file) ==
    IF file = <<>> \/ ~WellFormed(Head(file)) THEN <<>>
    ELSE <<Head(file)>> \o Processed(Tail(file))

(* The for loop of load_transcripts. *)
RECURSIVE LoadLoop(_, _)
LoadLoop(st, file) ==
    IF file = <<>> THEN st
    ELSE LET episode == Head(file) IN
         IF ~WellFormed(episode) THEN [st EXCEPT !.raised = TRUE]
         ELSE LoadLoop(
                [eps |-> StoreEpisode(st.eps, episode.episode_id,
                            EpisodeMeta(episode.episode_title,
                                        episode.episode_number,
                                        Get(episode, "video_url", NoUrl),
                                        Get(episode, "audio_url", NoUrl),
                                        episode.transcript)),
                 order |-> KeyOrder(st.order, episode.episode_id),
                 docs |-> Append(st.docs,
                            Doc(episode.episode_id, episode.episode_title,
                                episode.episode_number, episode.transcript)),
                 raised |-> FALSE],
                Tail(file))

(* answer_question is a synchronous call: in a sequential run an ingestion *)
(* starts only when no call is in progress.                                *)
NoCallInProgress == \A c \in DOMAIN call : call[c].pc = "Idle"

load_transcripts(exists, file) ==
    /\ NoCallInProgress
    /\ Len(log) + Len(Processed(file)) <= MaxLog
    /\ IF ~exists
       THEN /\ lastIngest' = "FileNotFoundError"
            /\ UNCHANGED <<episodes, epOrder, indexDocs, log>>
       ELSE LET st == LoadLoop([eps |-> episodes, order |-> epOrder,
                                docs |-> <<>>, raised |-> FALSE], file)
            IN  /\ episodes' = st.eps
                /\ epOrder' = st.order
                /\ indexDocs' = IF ~st.raised /\ st.docs # <<>>
                                THEN IndexDocuments(indexDocs, st.docs)
                                ELSE indexDocs
                /\ lastIngest' = IF st.raised THEN "KeyError" ELSE "ok"
                /\ log' = log \o Processed(file)
    /\ UNCHANGED <<call, probe, host>>

add_transcript(episode_id, episode_title, episode_number, transcript_text, video_url, audio_url) ==
    /\ NoCallInProgress
    /\ Len(log) < MaxLog
    /\ episodes' = StoreEpisode(episodes, episode_id,
                      EpisodeMeta(episode_title, episode_number, video_url,
                                  audio_url, transcript_text))
    /\ epOrder' = KeyOrder(epOrder, episode_id)
    /\ indexDocs' = IndexDocuments(indexDocs,
                      <<Doc(episode_id, episode_title, episode_number,
                            transcript_text)>>)
    /\ lastIngest' = "ok"
    /\ log' = Append(log,
                [episode_id |-> episode_id, episode_title |-> episode_title,
                 episode_number |-> episode_number,
                 transcript |-> transcript_text, video_url |-> video_url,
                 audio_url |-> audio_url])
    /\ UNCHANGED <<call, probe, host>>

(* TranscriptManager (transcripts.py) keeps a Registry and an Index of its  *)
(* own, of the same shape; its add_transcript is the one above.            *)

(* " ".join([s.text for s in segments]) *)
RECURSIVE SpaceJoin(_)
SpaceJoin(texts) ==
    IF texts = <<>> THEN <<>>
    ELSE IF Len(texts) = 1 THEN texts[1]
    ELSE texts[1] \o <<Space>> \o SpaceJoin(Tail(texts))

(* The documents of the segments of an episode, one per segment. *)
SegmentDocs(episode_id, episode_title, episode_number, segments) ==
    [n \in 1..Len(segments) |->
        [episode_id |-> episode_id, episode_title |-> episode_title,
         episode_number |-> episode_number, text |-> segments[n].text,
         start_time |-> segments[n].start_time,
         end_time |-> segments[n].end_time]]

add_transcript_with_segments(episode_id, episode_title, episode_number, segments) ==
    /\ NoCallInProgress
    /\ Len(log) < MaxLog
    /\ episodes' = StoreEpisode(episodes, episode_id,
                      [title |-> episode_title, number |-> episode_number,
                       video_url |-> IF segments # <<>> THEN segments[1].video_url
                                     ELSE NoUrl,
                       audio_url |-> IF segments # <<>> THEN segments[1].audio_url
                                     ELSE NoUrl,
                       segments |-> segments,
                       transcript |-> SpaceJoin([n \in 1..Len(segments) |->
                                                   segments[n].text])])
    /\ epOrder' = KeyOrder(epOrder, episode_id)
    /\ indexDocs' = IF segments # <<>>
                    THEN IndexDocuments(indexDocs,
                            SegmentDocs(episode_id, episode_title,
                                        episode_number, segments))
                    ELSE indexDocs
    /\ lastIngest' = "ok"
    /\ log' = Append(log,
                [episode_id |-> episode_id, episode_title |-> episode_title,
                 episode_number |-> episode_number, segments |-> segments])
    /\ UNCHANGED <<call, probe, host>>

(* load_from_json: add_transcript record by record, so the records before  *)
(* a malformed one are stored and indexed.                                 *)
load_from_json(exists, file) ==
    /\ NoCallInProgress
    /\ Len(log) + Len(Processed(file)) <= MaxLog
    /\ IF ~exists
       THEN /\ lastIngest' = "FileNotFoundError"
            /\ UNCHANGED <<episodes, epOrder, indexDocs, log>>
       ELSE LET st == LoadLoop([eps |-> episodes, order |-> epOrder,
                                docs |-> <<>>, raised |-> FALSE], file)
            IN  /\ episodes' = st.eps
                /\ epOrder' = st.order
                /\ indexDocs' = IndexDocuments(indexDocs, st.docs)
                /\ lastIngest' = IF st.raised THEN "KeyError" ELSE "ok"
                /\ log' = log \o Processed(file)
    /\ UNCHANGED <<call, probe, host>>

(* The items in dict order, unsorted. *)
list_episodes_unsorted ==
    [p \in 1..Len(epOrder) |->
        [episode_id |-> epOrder[p], title |-> episodes[epOrder[p]].title,
         number |-> episodes[epOrder[p]].number]]

(* list_episodes: the items sorted by number; sorted() is stable. *)
list_episodes ==
    LET Before(m, n) ==
            \/ episodes[epOrder[m]].number < episodes[epOrder[n]].number
            \/ episodes[epOrder[m]].number = episodes[epOrder[n]].number /\ m < n
        Rank(n) == Cardinality({m \in 1..Len(epOrder) : Before(m, n)}) + 1
    IN  [p \in 1..Len(epOrder) |->
            LET id == epOrder[CHOOSE n \in 1..Len(epOrder) : Rank(n) = p]
            IN  [episode_id |-> id, title |-> episodes[id].title,
                 number |-> episodes[id].number]]

-----------------------------------------------------------------------------
(* Timestamp links.  A helper that can raise returns [value |-> v] or      *)
(* [raised |-> e].                                                         *)

Digits == <<"0", "1", "2", "3", "4", "5", "6", "7", "8", "9">>

IsDigit(ch) == \E d \in 1..Len(Digits) : Digits[d] = ch

DigitValue(ch) == (CHOOSE d \in 1..Len(Digits) : Digits[d] = ch) - 1

Whitespace == {" ", "\t", "\n"}

(* str.split(sep): the pieces between the separators, at least one. *)
RECURSIVE SplitFrom(_, _, _)
SplitFrom(s, sep, cur) ==
    IF s = <<>> THEN <<cur>>
    ELSE IF Head(s) = sep THEN <<cur>> \o SplitFrom(Tail(s), sep, <<>>)
    ELSE SplitFrom(Tail(s), sep, Append(cur, Head(s)))

Split(s, sep) == SplitFrom(s, sep, <<>>)

RECURSIVE LStrip(_)
LStrip(s) == IF s # <<>> /\ Head(s) \in Whitespace THEN LStrip(Tail(s)) ELSE s

RECURSIVE RStrip(_)
RStrip(s) ==
    IF s # <<>> /\ s[Len(s)] \in Whitespace THEN RStrip(SubSeq(s, 1, Len(s) - 1))
    ELSE s

Strip(s) == RStrip(LStrip(s))

RECURSIVE DecimalValue(_)
DecimalValue(digits) ==
    IF digits = <<>> THEN 0
    ELSE 10 * DecimalValue(SubSeq(digits, 1, Len(digits) - 1))
           + DigitValue(digits[Len(digits)])

(* int(text): surrounding whitespace, an optional sign, decimal digits     *)
(* with single underscores between them; anything else is a ValueError.    *)
int(text) ==
    LET t == Strip(text)
        signed == t # <<>> /\ Head(t) \in {"+", "-"}
        body == IF signed THEN Tail(t) ELSE t
        wellFormed ==
            /\ body # <<>>
            /\ \A n \in 1..Len(body) : IsDigit(body[n]) \/ body[n] = "_"
            /\ IsDigit(body[1])
            /\ IsDigit(body[Len(body)])
            /\ \A n \in 1..(Len(body) - 1) : ~(body[n] = "_" /\ body[n + 1] = "_")
        magnitude == DecimalValue(SelectSeq(body, IsDigit))
    IN  IF ~wellFormed THEN [raised |-> "ValueError"]
        ELSE [value |-> IF signed /\ Head(t) = "-" THEN 0 - magnitude ELSE magnitude]

(* f"{seconds}": the decimal digits of an integer. *)
RECURSIVE DecimalDigits(_)
DecimalDigits(n) ==
    IF n < 10 THEN <<Digits[n + 1]>>
    ELSE Append(DecimalDigits(n \div 10), Digits[(n % 10) + 1])

str(n) == IF n < 0 THEN <<"-">> \o DecimalDigits(0 - n) ELSE DecimalDigits(n)

(* _time_to_seconds with a final raise in place of return 0 *)
time_to_seconds_strict(time_str) ==
    LET parts == Split(time_str, ":") IN
    IF Len(parts) = 2
    THEN LET minutes == int(parts[1])
             seconds == int(parts[2])
         IN  IF "raised" \in DOMAIN minutes THEN minutes
             ELSE IF "raised" \in DOMAIN seconds THEN seconds
             ELSE [value |-> minutes.value * 60 + seconds.value]
    ELSE IF Len(parts) = 3
    THEN LET hours == int(parts[1])
             minutes == int(parts[2])
             seconds == int(parts[3])
         IN  IF "raised" \in DOMAIN hours THEN hours
             ELSE IF "raised" \in DOMAIN minutes THEN minutes
             ELSE IF "raised" \in DOMAIN seconds THEN seconds
             ELSE [value |-> hours.value * 3600 + minutes.value * 60
                               + seconds.value]
    ELSE [raised |-> "ValueError"]

(* _time_to_seconds, read without the minutes factor on the two-part path. *)
time_to_seconds_adding(time_str) ==
    LET parts == Split(time_str, ":") IN
    IF Len(parts) = 2
    THEN LET minutes == int(parts[1])
             seconds == int(parts[2])
         IN  IF "raised" \in DOMAIN minutes THEN minutes
             ELSE IF "raised" \in DOMAIN seconds THEN seconds
             ELSE [value |-> minutes.value + seconds.value]
    ELSE [value |-> 0]

(* _time_to_seconds *)
time_to_seconds(time_str) ==
    LET parts == Split(time_str, ":") IN
    IF Len(parts) = 2
    THEN LET minutes == int(parts[1])
             seconds == int(parts[2])
         IN  IF "raised" \in DOMAIN minutes THEN minutes
             ELSE IF "raised" \in DOMAIN seconds THEN seconds
             ELSE [value |-> minutes.value * 60 + seconds.value]
    ELSE IF Len(parts) = 3
    THEN LET hours == int(parts[1])
             minutes == int(parts[2])
             seconds == int(parts[3])
         IN  IF "raised" \in DOMAIN hours THEN hours
             ELSE IF "raised" \in DOMAIN minutes THEN minutes
             ELSE IF "raised" \in DOMAIN seconds THEN seconds
             ELSE [value |-> hours.value * 3600 + minutes.value * 60
                               + seconds.value]
    ELSE [value |-> 0]

(* "x" in url, on a URL held as its pieces. *)
In(piece, url) == \E n \in 1..Len(url) : url[n] = piece

(* _build_timestamp_link with "?" as the separator of every YouTube URL *)
build_timestamp_link_query_only(url, time_str) ==
    IF url = NoUrl THEN [value |-> NoUrl]
    ELSE LET seconds == time_to_seconds(time_str) IN
         IF "raised" \in DOMAIN seconds THEN seconds
         ELSE IF In("youtube.com", url) \/ In("youtu.be", url)
         THEN [value |-> url \o <<"?", "t=">> \o str(seconds.value)]
         ELSE [value |-> url \o <<"#", "t=">> \o str(seconds.value)]

(* _build_timestamp_link *)
build_timestamp_link(url, time_str) ==
    IF url = NoUrl THEN [value |-> NoUrl]
    ELSE LET seconds == time_to_seconds(time_str) IN
         IF "raised" \in DOMAIN seconds THEN seconds
         ELSE IF In("youtube.com", url) \/ In("youtu.be", url)
         THEN LET separator == IF In("?", url) THEN "&" ELSE "?"
              IN  [value |-> url \o <<separator, "t=">> \o str(seconds.value)]
         ELSE IF In("spotify.com", url)
         THEN [value |-> url \o <<"#", "t=">> \o str(seconds.value)]
         ELSE [value |-> url \o <<"#", "t=">> \o str(seconds.value)]

-----------------------------------------------------------------------------
(* answer_question *)

Callers == {1, 2}

(* Callers that run in Spec: one call at a time. *)
SeqCallers == {1}

Sentinel == "I couldn't find relevant information in the podcast transcripts to answer your question."

MaxTokens == 400

EmptyResult == [answer |-> Sentinel, sources |-> <<>>, context_used |-> 0]

(* A caller that is not inside answer_question.  ret and raised hold at    *)
(* most one element: the value returned, the exception that left the call. *)
(* searchCalls and genCalls are the calls the two collaborators received,  *)
(* thrown the exceptions they raised.                                      *)
IdleCall ==
    [pc |-> "Idle", question |-> <<>>, max_context_segments |-> DefaultMaxContext,
     search_results |-> <<>>, i |-> 0, context_parts |-> <<>>, sources |-> <<>>,
     context |-> <<>>, ret |-> <<>>, raised |-> <<>>,
     searchCalls |-> <<>>, genCalls |-> <<>>, thrown |-> <<>>]

Terminal == {"Empty", "Done", "Failed"}

(* The positions in which a caller holds what its call gave it. *)
Returned == Terminal \cup {"Listed"}

(* if not search_results: return {...} *)
AfterSearchNoEmptyCheck(cs, hits) ==
    [cs EXCEPT !.pc = "Assembling", !.search_results = hits, !.i = 0,
               !.context_parts = <<>>, !.sources = <<>>]

AfterSearch(cs, hits) ==
    IF hits = <<>>
    THEN [cs EXCEPT !.pc = "Empty", !.search_results = hits,
                    !.ret = <<EmptyResult>>]
    ELSE [cs EXCEPT !.pc = "Assembling", !.search_results = hits, !.i = 0,
                    !.context_parts = <<>>, !.sources = <<>>]

(* An exception of a collaborator is not caught (there is no try in         *)
(* answer_question): it leaves the call as the collaborator raised it.     *)
OnSearchError(cs, exc) == [cs EXCEPT !.pc = "Failed", !.raised = <<exc>>]

OnGenerateErrorSwallowed(cs, exc) ==
    [cs EXCEPT !.pc = "Empty", !.ret = <<EmptyResult>>]

OnGenerateError(cs, exc) == [cs EXCEPT !.pc = "Failed", !.raised = <<exc>>]

(* The for loop has a hit left to assemble. *)
MoreHitsOffByOne(cs) == cs.i + 1 < Len(cs.search_results)

MoreHits(cs) == cs.i < Len(cs.search_results)

(* The block with the text cut as the excerpt is. *)
ContextBlockTruncated(episode_title, text) ==
    <<"[Episode: ">> \o episode_title \o <<"] ">>
        \o (IF Len(text) > ExcerptLen THEN SubSeq(text, 1, ExcerptLen) ELSE text)

(* f"[Episode: {episode_title}] {text}" *)
ContextBlock(episode_title, text) ==
    <<"[Episode: ">> \o episode_title \o <<"] ">> \o text

(* The excerpt with >= in place of > *)
ExcerptAtLimit(text) ==
    IF Len(text) >= ExcerptLen
    THEN SubSeq(text, 1, ExcerptLen) \o <<".", ".", ".">>
    ELSE text

(* text[:200] + "..." if len(text) > 200 else text *)
Excerpt(text) ==
    IF Len(text) > ExcerptLen
    THEN SubSeq(text, 1, ExcerptLen) \o <<".", ".", ".">>
    ELSE text

(* The source dict with both link keys always set. *)
BuildSourceAlwaysLinks(result, eps) ==
    LET episode == Get(eps, Get(result, "episode_id", ""), <<>>)
        text == Get(result, "text", <<>>)
    IN  [episode |-> Get(result, "episode_title", <<"Unknown">>),
         episode_number |-> Get(result, "episode_number", ""),
         segment |-> IF Len(text) > ExcerptLen
                     THEN SubSeq(text, 1, ExcerptLen) \o <<".", ".", ".">>
                     ELSE text,
         timestamp |-> <<>>,
         video_link |-> Get(episode, "video_url", NoUrl),
         audio_link |-> Get(episode, "audio_url", NoUrl)]

(* The source dict of one search result. *)
BuildSource(result, eps) ==
    LET episode_id == Get(result, "episode_id", "")
        episode_title == Get(result, "episode_title", <<"Unknown">>)
        text == Get(result, "text", <<>>)
        episode == Get(eps, episode_id, <<>>)
        video_url == Get(episode, "video_url", NoUrl)
        audio_url == Get(episode, "audio_url", NoUrl)
        source == [episode |-> episode_title,
                   episode_number |-> Get(result, "episode_number", ""),
                   segment |-> Excerpt(text),
                   timestamp |-> <<>>]
    IN  source
        @@ (IF video_url # NoUrl THEN "video_link" :> video_url ELSE <<>>)
        @@ (IF audio_url # NoUrl THEN "audio_link" :> audio_url ELSE <<>>)

(* One iteration of: for i, result in enumerate(search_results, 1) *)
AssembleHitPrepending(cs, eps) ==
    LET result == cs.search_results[cs.i + 1] IN
    [cs EXCEPT !.i = cs.i + 1,
               !.context_parts =
                   Append(cs.context_parts,
                          ContextBlock(Get(result, "episode_title", <<"Unknown">>),
                                       Get(result, "text", <<>>))),
               !.sources = <<BuildSource(result, eps)>> \o cs.sources]

AssembleHit(cs, eps) ==
    LET result == cs.search_results[cs.i + 1] IN
    [cs EXCEPT !.i = cs.i + 1,
               !.context_parts =
                   Append(cs.context_parts,
                          ContextBlock(Get(result, "episode_title", <<"Unknown">>),
                                       Get(result, "text", <<>>))),
               !.sources = Append(cs.sources, BuildSource(result, eps))]

(* "\n\n".join(context_parts) *)
RECURSIVE Join(_)
Join(parts) ==
    IF parts = <<>> THEN <<>>
    ELSE IF Len(parts) = 1 THEN parts[1]
    ELSE parts[1] \o <<"\n\n">> \o Join(Tail(parts))

(* The dict returned after generation. *)
Result(cs, answer) ==
    [answer |-> answer, sources |-> cs.sources,
     context_used |-> Len(cs.search_results)]

(* context_parts = [] and sources = [] are names local to the call: the    *)
(* caller whose record holds them.                                        *)
LocalsShared(c) == 1

Locals(c) == c

(* The record of caller c as its code sees it, and the records after it   *)
(* has assigned cs.                                                       *)
Frame(c) ==
    [call[c] EXCEPT !.context_parts = call[Locals(c)].context_parts,
                    !.sources = call[Locals(c)].sources]

Commit(c, cs) ==
    [x \in Callers |->
        IF x = c THEN cs
        ELSE IF x = Locals(c)
             THEN [call[x] EXCEPT !.context_parts = cs.context_parts,
                                  !.sources = cs.sources]
             ELSE call[x]]

(* episode = self.episodes.get(episode_id, {}): a read of the Registry. *)
RegistryAfterHitPopping(eps, result) ==
    [x \in (DOMAIN eps) \ {Get(result, "episode_id", "")} |-> eps[x]]

RegistryAfterHit(eps, result) == eps

(* list_episodes has returned its list. *)
AfterListFailingOnEmpty(cs, listing) ==
    IF listing = <<>>
    THEN [cs EXCEPT !.pc = "Failed", !.raised = <<[error |-> "IndexError"]>>]
    ELSE [cs EXCEPT !.pc = "Listed", !.ret = <<[episodes |-> listing]>>]

AfterList(cs, listing) ==
    [cs EXCEPT !.pc = "Listed", !.ret = <<[episodes |-> listing]>>]

(* get_episode with self.episodes[episode_id] in place of .get *)
get_episode_subscript(eps, episode_id) ==
    IF episode_id \in DOMAIN eps THEN [value |-> <<eps[episode_id]>>]
    ELSE [raised |-> "KeyError"]

(* get_episode: self.episodes.get(episode_id); the value is the episode,   *)
(* or nothing for None.                                                    *)
get_episode(eps, episode_id) ==
    IF episode_id \in DOMAIN eps THEN [value |-> <<eps[episode_id]>>]
    ELSE [value |-> <<>>]

(* A caller calls get_episode. *)
GetEpisode(episode_id) ==
    /\ probe' = [fn |-> "get_episode", arg |-> episode_id,
                 out |-> get_episode(episodes, episode_id)]
    /\ UNCHANGED <<episodes, epOrder, indexDocs, log, lastIngest, call, host>>

(* A caller calls list_episodes. *)
ListEpisodes(c) ==
    /\ call[c].pc = "Idle"
    /\ call' = [call EXCEPT ![c] = AfterList(IdleCall, list_episodes)]
    /\ UNCHANGED <<episodes, epOrder, indexDocs, log, lastIngest, probe, host>>

(* The call is entered. *)
answer_question(c, question, max_context_segments) ==
    /\ call[c].pc = "Idle"
    /\ call' = [call EXCEPT ![c] =
                  [IdleCall EXCEPT !.pc = "Searching", !.question = question,
                                   !.max_context_segments = max_context_segments]]
    /\ UNCHANGED <<episodes, epOrder, indexDocs, log, lastIngest, probe, host>>

(* self.index.search(query=question, fields=[...], max_results=...) *)
Search(c) ==
    /\ call[c].pc = "Searching"
    /\ LET cs == [Frame(c) EXCEPT !.searchCalls =
                    Append(@, [query |-> call[c].question,
                               max_results |-> call[c].max_context_segments])]
       IN  \/ \E hits \in SearchOutcomes(indexDocs, cs.question,
                                         cs.max_context_segments) :
                call' = Commit(c, AfterSearch(cs, hits))
           \/ \E e \in Errors :
                call' = Commit(c,
                    OnSearchError([cs EXCEPT !.thrown =
                        Append(@, [by |-> "index", error |-> e])],
                        [error |-> e]))
    /\ UNCHANGED <<episodes, epOrder, indexDocs, log, lastIngest, probe, host>>

(* The loop over the hits, then the join of the context. *)
Assemble(c) ==
    /\ call[c].pc = "Assembling"
    /\ call' = Commit(c,
                  IF MoreHits(Frame(c))
                  THEN AssembleHit(Frame(c), episodes)
                  ELSE [Frame(c) EXCEPT !.pc = "Generating",
                                        !.context = Join(Frame(c).context_parts)])
    /\ episodes' = IF MoreHits(Frame(c))
                   THEN RegistryAfterHit(episodes,
                            Frame(c).search_results[Frame(c).i + 1])
                   ELSE episodes
    /\ UNCHANGED <<epOrder, indexDocs, log, lastIngest, probe, host>>

(* self.llm.generate_answer(question, context, max_tokens=400), and return *)
Generate(c) ==
    /\ call[c].pc = "Generating"
    /\ LET cs == [Frame(c) EXCEPT !.genCalls =
                    Append(@, [question |-> call[c].question,
                               context |-> call[c].context,
                               max_tokens |-> MaxTokens])]
       IN  \/ \E answer \in Answers :
                call' = Commit(c,
                    [cs EXCEPT !.pc = "Done", !.ret = <<Result(cs, answer)>>])
           \/ \E e \in Errors :
                call' = Commit(c,
                    OnGenerateError([cs EXCEPT !.thrown =
                        Append(@, [by |-> "generator", error |-> e])],
                        [error |-> e]))
    /\ UNCHANGED <<episodes, epOrder, indexDocs, log, lastIngest, probe, host>>

(* The caller has its result or its exception; it may call again. *)
Return(c) ==
    /\ call[c].pc \in Returned
    /\ call' = [call EXCEPT ![c] = IdleCall]
    /\ UNCHANGED <<episodes, epOrder, indexDocs, log, lastIngest, probe, host>>

-----------------------------------------------------------------------------

(* No helper function has been applied. *)
NoProbe == [fn |-> "none"]

(* The chatbot is used directly, with no hosting layer around it. *)
NoHost == [kind |-> "none"]

Init ==
    /\ episodes = <<>>
    /\ epOrder = <<>>
    /\ indexDocs = <<>>
    /\ log = <<>>
    /\ lastIngest = "none"
    /\ call = [c \in Callers |-> IdleCall]
    /\ probe = NoProbe
    /\ host = NoHost

Files == UNION {[1..n -> Records] : n \in 0..MaxFileLen}

EngineStep(c) ==
    \/ Search(c)
    \/ Assemble(c)
    \/ Generate(c)

Next ==
    \/ \E file \in Files : load_transcripts(TRUE, file)
    \/ load_transcripts(FALSE, <<>>)
    \/ \E r \in {x \in Records : WellFormed(x)} :
          add_transcript(r.episode_id, r.episode_title, r.episode_number,
                         r.transcript, Get(r, "video_url", NoUrl),
                         Get(r, "audio_url", NoUrl))
    \/ \E c \in SeqCallers :
          \/ \E q \in Questions, k \in Ks : answer_question(c, q, k)
          \/ EngineStep(c)
          \/ ListEpisodes(c)
          \/ Return(c)

Spec == Init /\ [][Next]_vars

(* Serving: the corpus is one transcripts file, loaded before the first     *)
(* question (cli.py ask, api.py startup_event), and is not written again.  *)
ServingInit ==
    \E file \in Files :
        /\ Processed(file) = file
        /\ LET st == LoadLoop([eps |-> <<>>, order |-> <<>>, docs |-> <<>>,
                               raised |-> FALSE], file)
           IN  /\ episodes = st.eps
               /\ epOrder = st.order
               /\ indexDocs = IndexDocuments(<<>>, st.docs)
        /\ log = file
        /\ lastIngest = "ok"
        /\ call = [c \in Callers |-> IdleCall]
        /\ probe = NoProbe
        /\ host = NoHost

ServingNext ==
    \E c \in SeqCallers :
        \/ \E q \in Questions, k \in Ks : answer_question(c, q, k)
        \/ EngineStep(c)
        \/ Return(c)

(* A call runs to its end: answer_question is straight-line code, so its   *)
(* next step is taken whenever the collaborator it waits for returns or    *)
(* raises.                                                                 *)
ServingSpec ==
    /\ ServingInit
    /\ [][ServingNext]_vars
    /\ \A c \in SeqCallers : WF_vars(EngineStep(c))

-----------------------------------------------------------------------------
(* Hosting layers: the Lambda handler (lambda_handler.py) and the REST API  *)
(* (api.py).  host.chatbot tells what the layer's global refers to: "None", *)
(* a chatbot whose initialization finished ("ok"), or one whose load raised *)
(* ("failed").  episodes and indexDocs are those of that chatbot.           *)

(* Where the transcripts come from at an initialization, and what is there. *)
HostFiles == {<<>>, <<Rec1>>, <<Rec1, Rec3>>, <<Rec3, RecBad>>}

Sources ==
    {[kind |-> "absent"], [kind |-> "invalid json"]}
    \cup {[kind |-> "error", error |-> e] : e \in {"ClientError", "ValueError"}}
    \cup {[kind |-> "file", file |-> f] : f \in HostFiles}

(* A fresh PodcastChatbot loaded from a source: its Registry and documents, *)
(* and the exception raised, if any.                                       *)
InitOutcome(source) ==
    LET empty == [eps |-> <<>>, order |-> <<>>, docs |-> <<>>, raised |-> FALSE]
    IN  IF source.kind = "absent"
        THEN [raised |-> <<>>, loaded |-> FALSE, st |-> empty, log |-> <<>>]
        ELSE IF source.kind = "error"
        THEN [raised |-> <<source.error>>, loaded |-> FALSE, st |-> empty,
              log |-> <<>>]
        ELSE IF source.kind = "invalid json"
        THEN [raised |-> <<"JSONDecodeError">>, loaded |-> FALSE, st |-> empty,
              log |-> <<>>]
        ELSE LET st == LoadLoop(empty, source.file)
             IN  [raised |-> IF st.raised THEN <<"KeyError">> ELSE <<>>,
                  loaded |-> ~st.raised, st |-> st,
                  log |-> Processed(source.file)]

(* if CHATBOT is not None: return CHATBOT *)
NeedsInitAlways(h) == TRUE

NeedsInit(h) == h.chatbot = "None"

(* What the global refers to after an initialization: CHATBOT = chatbot is *)
(* the last statement of the try block.                                    *)
CachedBeforeLoad(outcome) == IF outcome.raised = <<>> THEN "ok" ELSE "failed"

Cached(outcome) == IF outcome.raised = <<>> THEN "ok" ELSE "None"

LambdaDefaultContext == 3

LambdaDefaultResults == 5

(* build_response(status_code, body) *)
build_response(status_code, body) == [statusCode |-> status_code, body |-> body]

(* The except clauses of handler. *)
OnHandlerErrorAlways500(error) ==
    build_response(500, [error |-> "Internal error", exception |-> error])

OnHandlerError(error) ==
    IF error = "JSONDecodeError"
    THEN build_response(400, [error |-> "Invalid JSON"])
    ELSE build_response(500, [error |-> "Internal error", exception |-> error])

Methods == {"GET", "POST"}

Paths == {"/", "/api/episodes", "/api/ask", "/api/search", "/nope"}

HostQuestions == {<<>>, <<" ">>, <<" ", "a">>, <<"a", " ", "b">>}

(* The body of an event: text that json.loads rejects, or the value it     *)
(* returns: null, an array, or an object.                                  *)
Bodies ==
    {[json |-> "invalid"], [json |-> "null"], [json |-> "array"],
     [json |-> "object", value |-> <<>>]}
    \cup {[json |-> "object", value |-> [question |-> q]] : q \in HostQuestions}
    \cup {[json |-> "object", value |-> [question |-> <<"a">>,
                                        max_context_segments |-> 1]]}
    \cup {[json |-> "object", value |-> [query |-> q]] : q \in HostQuestions}

Events ==
    {[httpMethod |-> m, path |-> p] : m \in Methods, p \in Paths}
    \cup {[httpMethod |-> m, path |-> p, body |-> b] :
            m \in Methods, p \in {"/api/ask", "/api/search"}, b \in Bodies}
    \cup {[path |-> "/api/episodes"], [httpMethod |-> "POST"]}

(* answer_question run to its end on the chatbot of the layer. *)
RECURSIVE AssembleAll(_)
AssembleAll(cs) ==
    IF MoreHits(cs) THEN AssembleAll(AssembleHit(cs, episodes)) ELSE cs

EngineOutcomes(question, max_context_segments) ==
    {[raised |-> <<e>>] : e \in Errors}
    \cup UNION {
          IF hits = <<>> THEN {[value |-> EmptyResult]}
          ELSE {[value |-> Result(AssembleAll(AfterSearch(IdleCall, hits)), answer)] :
                    answer \in Answers}
               \cup {[raised |-> <<e>>] : e \in Errors}
          : hits \in SearchOutcomes(indexDocs, question, max_context_segments)}

(* chatbot.index.search(...) of the search route. *)
IndexOutcomes(query, max_results) ==
    {[raised |-> <<e>>] : e \in Errors}
    \cup {[value |-> hits] : hits \in SearchOutcomes(indexDocs, query, max_results)}

(* A container that has not been invoked yet. *)
ColdHost ==
    [kind |-> "lambda", pc |-> "Idle", chatbot |-> "None", ingested |-> 0,
     lastInit |-> "none", event |-> <<>>, called |-> "none", response |-> <<>>]

(* handler up to the return of load_chatbot: the cached chatbot, or a new  *)
(* one loaded from the source; an exception goes to the except clauses.    *)
Invoke(event, source) ==
    /\ host.kind = "lambda"
    /\ host.pc = "Idle"
    /\ IF ~NeedsInit(host)
       THEN /\ host' = [host EXCEPT !.pc = "Routing", !.lastInit = "reused",
                                    !.event = event, !.called = "none",
                                    !.response = <<>>]
            /\ UNCHANGED <<episodes, epOrder, indexDocs, log, lastIngest>>
       ELSE LET outcome == InitOutcome(source)
                kept == Cached(outcome) # "None"
            IN  /\ host' = [host EXCEPT
                        !.chatbot = Cached(outcome),
                        !.ingested = IF outcome.loaded THEN @ + 1 ELSE @,
                        !.lastInit = IF outcome.raised = <<>> THEN "ok"
                                     ELSE outcome.raised[1],
                        !.event = event,
                        !.called = "none",
                        !.pc = IF outcome.raised = <<>> THEN "Routing" ELSE "Idle",
                        !.response = IF outcome.raised = <<>> THEN <<>>
                                     ELSE <<OnHandlerError(outcome.raised[1])>>]
                /\ episodes' = IF kept THEN outcome.st.eps ELSE <<>>
                /\ epOrder' = IF kept THEN outcome.st.order ELSE <<>>
                /\ indexDocs' = IF kept /\ outcome.raised = <<>>
                                THEN IndexDocuments(<<>>, outcome.st.docs)
                                ELSE <<>>
                /\ log' = IF kept THEN outcome.log ELSE <<>>
                /\ lastIngest' = IF outcome.raised # <<>> THEN outcome.raised[1]
                                 ELSE IF outcome.loaded THEN "ok" ELSE "none"
    /\ UNCHANGED <<call, probe>>

(* The response of the routes of handler, for one way the collaborators    *)
(* answer.                                                                 *)
RouteOutcomes(event) ==
    LET http_method == Get(event, "httpMethod", "GET")
        path == Get(event, "path", "/")
        body == Get(event, "body", [json |-> "object", value |-> <<>>])
        parsed(route(_)) ==
            IF body.json = "invalid"
            THEN {[called |-> "none", response |-> OnHandlerError("JSONDecodeError")]}
            ELSE IF body.json = "null"
            THEN {[called |-> "none", response |-> OnHandlerError("TypeError")]}
            ELSE IF body.json = "array"
            THEN {[called |-> "none", response |-> OnHandlerError("AttributeError")]}
            ELSE route(body.value)
        ask(value) ==
            LET question == Strip(Get(value, "question", <<>>))
                max_context == Get(value, "max_context_segments", LambdaDefaultContext)
            IN  IF question = <<>>
                THEN {[called |-> "none",
                       response |-> build_response(400, [error |-> "Question is required"])]}
                ELSE {[called |-> "answer_question",
                       response |-> IF "raised" \in DOMAIN o
                                    THEN OnHandlerError(o.raised[1])
                                    ELSE build_response(200, o.value)] :
                        o \in EngineOutcomes(question, max_context)}
        search(value) ==
            LET query == Strip(Get(value, "query", <<>>))
                max_results == Get(value, "max_results", LambdaDefaultResults)
            IN  IF query = <<>>
                THEN {[called |-> "none",
                       response |-> build_response(400, [error |-> "Query is required"])]}
                ELSE {[called |-> "search",
                       response |-> IF "raised" \in DOMAIN o
                                    THEN OnHandlerError(o.raised[1])
                                    ELSE build_response(200,
                                            [query |-> query, results |-> o.value,
                                             count |-> Len(o.value)])] :
                        o \in IndexOutcomes(query, max_results)}
    IN  IF path = "/" \/ path = ""
        THEN {[called |-> "none",
               response |-> build_response(200, [name |-> "Podbotnik",
                                                 status |-> "running"])]}
        ELSE IF path = "/api/episodes" /\ http_method = "GET"
        THEN {[called |-> "list_episodes",
               response |-> build_response(200, [episodes |-> list_episodes,
                                                 count |-> Len(list_episodes)])]}
        ELSE IF path = "/api/ask" /\ http_method = "POST" THEN parsed(ask)
        ELSE IF path = "/api/search" /\ http_method = "POST" THEN parsed(search)
        ELSE {[called |-> "none",
               response |-> build_response(404, [error |-> "Not found"])]}

(* handler after load_chatbot has returned: the routes. *)
Route ==
    /\ host.kind = "lambda"
    /\ host.pc = "Routing"
    /\ \E o \in RouteOutcomes(host.event) :
          host' = [host EXCEPT !.pc = "Idle", !.called = o.called,
                               !.response = <<o.response>>]
    /\ UNCHANGED <<episodes, epOrder, indexDocs, log, lastIngest, call, probe>>

LambdaNext ==
    \/ \E event \in Events, source \in Sources : Invoke(event, source)
    \/ Route

LambdaInit ==
    /\ episodes = <<>>
    /\ epOrder = <<>>
    /\ indexDocs = <<>>
    /\ log = <<>>
    /\ lastIngest = "none"
    /\ call = [c \in Callers |-> IdleCall]
    /\ probe = NoProbe
    /\ host = ColdHost

LambdaSpec == LambdaInit /\ [][LambdaNext]_vars

(* The REST API before its startup event. *)
ApiHost ==
    [kind |-> "api", server |-> "Starting", pc |-> "Idle", chatbot |-> "None",
     ingested |-> 0, lastInit |-> "none", event |-> <<>>, called |-> "none",
     response |-> <<>>]

(* What startup_event can meet: PodcastChatbot() raises without a key for  *)
(* the generator, and the file, once it exists, is loaded.                 *)
ApiSources ==
    {[kind |-> "invalid json"], [kind |-> "error", error |-> "ValueError"]}
    \cup {[kind |-> "file", file |-> f] : f \in HostFiles}

(* uvicorn.run(app): a startup event that raises ends the server before it *)
(* accepts a request.                                                      *)
ServesAfterStartup(raised) == raised = <<>>

(* startup_event: the file must exist; the global is assigned the new      *)
(* chatbot, and then the transcripts are loaded into it.                   *)
startup_event(exists, source) ==
    /\ host.kind = "api"
    /\ host.server = "Starting"
    /\ IF ~exists
       THEN /\ host' = [host EXCEPT !.server =
                            IF ServesAfterStartup(<<"Exception">>) THEN "Serving"
                            ELSE "Exited",
                                    !.lastInit = "Exception"]
            /\ UNCHANGED <<episodes, epOrder, indexDocs, log, lastIngest>>
       ELSE LET outcome == InitOutcome(source)
                constructed == source.kind # "error"
            IN  /\ host' = [host EXCEPT
                        !.chatbot = IF ~constructed THEN "None"
                                    ELSE IF outcome.raised = <<>> THEN "ok"
                                    ELSE "failed",
                        !.ingested = IF outcome.loaded THEN @ + 1 ELSE @,
                        !.lastInit = IF outcome.raised = <<>> THEN "ok"
                                     ELSE outcome.raised[1],
                        !.server = IF ServesAfterStartup(outcome.raised)
                                   THEN "Serving" ELSE "Exited"]
                /\ episodes' = outcome.st.eps
                /\ epOrder' = outcome.st.order
                /\ indexDocs' = IF outcome.raised = <<>>
                                THEN IndexDocuments(<<>>, outcome.st.docs)
                                ELSE <<>>
                /\ log' = outcome.log
                /\ lastIngest' = IF outcome.raised # <<>> THEN outcome.raised[1]
                                 ELSE "ok"
    /\ UNCHANGED <<call, probe>>

(* raise HTTPException(status_code, detail) *)
HTTPException(status_code, detail) ==
    [statusCode |-> status_code, body |-> [detail |-> detail]]

(* A request handler of the API has answered. *)
Responds(called, response) ==
    /\ host' = [host EXCEPT !.called = called, !.response = <<response>>]
    /\ UNCHANGED <<episodes, epOrder, indexDocs, log, lastIngest, call, probe>>

root ==
    /\ host.kind = "api"
    /\ host.server = "Serving"
    /\ Responds("none", [statusCode |-> 200,
                         body |-> [name |-> "Podbotnik API", status |-> "running"]])

get_episodes ==
    /\ host.kind = "api"
    /\ host.server = "Serving"
    /\ IF host.chatbot = "None"
       THEN Responds("none", HTTPException(500, "Chatbot not initialized"))
       ELSE Responds("list_episodes",
                     [statusCode |-> 200,
                      body |-> [episodes |-> list_episodes,
                                count |-> Len(list_episodes)]])

ask_question(question, max_context_segments) ==
    /\ host.kind = "api"
    /\ host.server = "Serving"
    /\ IF host.chatbot = "None"
       THEN Responds("none", HTTPException(500, "Chatbot not initialized"))
       ELSE IF Strip(question) = <<>>
       THEN Responds("none", HTTPException(400, "Question cannot be empty"))
       ELSE \E o \in EngineOutcomes(question, max_context_segments) :
               Responds("answer_question",
                        IF "raised" \in DOMAIN o
                        THEN HTTPException(500, o.raised[1])
                        ELSE [statusCode |-> 200, body |-> o.value])

search_transcripts(query, max_results) ==
    /\ host.kind = "api"
    /\ host.server = "Serving"
    /\ IF host.chatbot = "None"
       THEN Responds("none", HTTPException(500, "Chatbot not initialized"))
       ELSE IF Strip(query) = <<>>
       THEN Responds("none", HTTPException(400, "Query cannot be empty"))
       ELSE \E o \in IndexOutcomes(query, max_results) :
               Responds("search",
                        IF "raised" \in DOMAIN o
                        THEN [statusCode |-> 500, body |-> [detail |-> o.raised[1]]]
                        ELSE [statusCode |-> 200,
                              body |-> [query |-> query, results |-> o.value,
                                        count |-> Len(o.value)]])

ApiNext ==
    \/ \E exists \in BOOLEAN, source \in ApiSources : startup_event(exists, source)
    \/ root
    \/ get_episodes
    \/ \E q \in HostQuestions, k \in {1, DefaultMaxContext} : ask_question(q, k)
    \/ \E q \in HostQuestions : search_transcripts(q, LambdaDefaultResults)

(* Either hosting layer, from its start. *)
HostInit ==
    /\ episodes = <<>>
    /\ epOrder = <<>>
    /\ indexDocs = <<>>
    /\ log = <<>>
    /\ lastIngest = "none"
    /\ call = [c \in Callers |-> IdleCall]
    /\ probe = NoProbe
    /\ host \in {ColdHost, ApiHost}

HostNext == LambdaNext \/ ApiNext

HostSpec == HostInit /\ [][HostNext]_vars

(* Concurrent serving: both callers are inside answer_question at once     *)
(* (api.py serves requests concurrently on one chatbot object), over a     *)
(* corpus that is not being written.                                       *)
ConcQuestions == {q \in Questions : ~IsBlank(q)}

ConcKs == {1, DefaultMaxContext}

ConcNext ==
    \E c \in Callers :
        \/ \E q \in ConcQuestions, k \in ConcKs : answer_question(c, q, k)
        \/ EngineStep(c)
        \/ Return(c)

ConcSpec == ServingInit /\ [][ConcNext]_vars

(* Listing: a Registry of up to MaxListed ingested records over three ids  *)
(* and three numbers, then calls of list_episodes.                         *)
MaxListed == 3

ListRecords ==
    {[episode_id |-> id, episode_title |-> <<"x">>, episode_number |-> n,
      transcript |-> <<"a">>] : id \in {"ep1", "ep2", "ep3"}, n \in 1..3}

ListFiles == UNION {[1..n -> ListRecords] : n \in 0..MaxListed}

ListInit ==
    \E file \in ListFiles :
        /\ LET st == LoadLoop([eps |-> <<>>, order |-> <<>>, docs |-> <<>>,
                               raised |-> FALSE], file)
           IN  /\ episodes = st.eps
               /\ epOrder = st.order
               /\ indexDocs = IndexDocuments(<<>>, st.docs)
        /\ log = file
        /\ lastIngest = IF file = <<>> THEN "none" ELSE "ok"
        /\ call = [c \in Callers |-> IdleCall]
        /\ probe = NoProbe
        /\ host = NoHost

ListNext ==
    \E c \in SeqCallers :
        \/ ListEpisodes(c)
        \/ Return(c)

ListSpec == ListInit /\ [][ListNext]_vars

(* Serving over an Index that holds one document the Registry does not    *)
(* know: self.index is a collaborator of its own, and answer_question      *)
(* reads each hit's episode_id with a default.                             *)
OrphanDocs ==
    {Doc("ep9", <<"z">>, 9, <<"a">>),
     [episode_title |-> <<"z">>, episode_number |-> 9, text |-> <<"b">>]}

OrphanInit ==
    \E file \in Files, orphan \in OrphanDocs :
        /\ Processed(file) = file
        /\ LET st == LoadLoop([eps |-> <<>>, order |-> <<>>, docs |-> <<>>,
                               raised |-> FALSE], file)
           IN  /\ episodes = st.eps
               /\ epOrder = st.order
               /\ indexDocs = IndexDocuments(IndexDocuments(<<>>, st.docs),
                                             <<orphan>>)
        /\ log = file
        /\ lastIngest = IF file = <<>> THEN "none" ELSE "ok"
        /\ call = [c \in Callers |-> IdleCall]
        /\ probe = NoProbe
        /\ host = NoHost

OrphanNext ==
    \/ \E c \in SeqCallers :
          \/ \E q \in Questions, k \in Ks : answer_question(c, q, k)
          \/ EngineStep(c)
          \/ Return(c)
    \/ \E id \in {"ep1", "ep2", "ep9", ""} : GetEpisode(id)

OrphanSpec == OrphanInit /\ [][OrphanNext]_vars

(* The helpers applied on their own: the source of a hit with a text of    *)
(* up to MaxTextLen characters, and _time_to_seconds on clock strings      *)
(* written from their components.                                          *)
MaxTextLen == 260

MaxPad == 2

TextPatterns == {"same", "counting"}

TextOf(n, pattern) ==
    [i \in 1..n |-> IF pattern = "same" THEN "a" ELSE Digits[(i % 10) + 1]]

(* The segment of the source built for a hit with this text. *)
SegmentOf(text) ==
    /\ probe' = [fn |-> "segment", arg |-> text,
                 out |-> BuildSource(Doc("ep1", <<"x">>, 1, text), episodes).segment]
    /\ UNCHANGED <<episodes, epOrder, indexDocs, log, lastIngest, call, host>>

ClockValues == {0, 1, 2, 3, 5, 30, 59, 60, 75, 100}

(* A component written in decimal, zero-padded to a width. *)
RECURSIVE Padded(_, _)
Padded(digits, width) ==
    IF Len(digits) >= width THEN digits ELSE Padded(<<"0">> \o digits, width)

RECURSIVE ClockText(_, _)
ClockText(comps, widths) ==
    IF Len(comps) = 1 THEN Padded(str(comps[1]), widths[1])
    ELSE Padded(str(Head(comps)), Head(widths)) \o <<":">>
           \o ClockText(Tail(comps), Tail(widths))

(* _time_to_seconds applied to "M:S" or "H:M:S". *)
TimeToSeconds(comps, widths) ==
    /\ probe' = [fn |-> "_time_to_seconds", arg |-> ClockText(comps, widths),
                 comps |-> comps,
                 out |-> time_to_seconds(ClockText(comps, widths))]
    /\ UNCHANGED <<episodes, epOrder, indexDocs, log, lastIngest, call, host>>

(* Clock strings of any shape: up to MaxClockLen characters of a small     *)
(* alphabet, and some longer ones.                                         *)
MaxClockLen == 5

ClockChars == {"1", "a", ":", "-"}

ClockStrings ==
    UNION {[1..n -> ClockChars] : n \in 0..MaxClockLen}
    \cup {<<"b", "a", "d">>, <<"-", "1", ":", "3", "0">>, <<" ", "5", ":", "+", "3">>,
          <<"1", ":", "2", ":", "3", ":", "4">>, <<"1", "_", "0", ":", "0">>}

(* _time_to_seconds applied to a string of any shape. *)
TimeToSecondsOf(time_str) ==
    /\ probe' = [fn |-> "_time_to_seconds", arg |-> time_str, comps |-> <<>>,
                 out |-> time_to_seconds(time_str)]
    /\ UNCHANGED <<episodes, epOrder, indexDocs, log, lastIngest, call, host>>

(* URLs as their pieces: scheme, host pieces, then path and query pieces.  *)
(* The path begins at the first piece of PathPieces.                       *)
PathPieces == {"/watch", "/ep1", "/X", "/a.mp3", "/"}

LinkUrls ==
    {NoUrl, YouTubeUrl, SpotifyUrl,
     <<"https://", "www.", "youtube.com", "/watch">>,
     <<"https://", "youtu.be", "/X">>,
     <<"https://", "example.com", "/a.mp3">>,
     <<"https://", "example.com", "/a.mp3", "?", "x=1">>,
     <<"https://", "example.com", "/watch", "?", "ref=", "youtube.com">>,
     <<"https://", "example.com", "/", "youtu.be">>}

LinkClocks ==
    {<<>>, <<"0", "1", ":", "0", "0">>, <<"1", ":", "0", "2", ":", "0", "3">>,
     <<"b", "a", "d">>, <<"a", ":", "b">>}

(* _build_timestamp_link applied to a URL and a clock string. *)
BuildTimestampLink(url, time_str) ==
    /\ probe' = [fn |-> "_build_timestamp_link", url |-> url, arg |-> time_str,
                 out |-> build_timestamp_link(url, time_str)]
    /\ UNCHANGED <<episodes, epOrder, indexDocs, log, lastIngest, call, host>>

(* Each run applies one helper to one input. *)
HelperNext ==
    /\ probe = NoProbe
    /\ \/ \E n \in 0..MaxTextLen, pattern \in TextPatterns :
             SegmentOf(TextOf(n, pattern))
       \/ \E n \in {2, 3} :
             \E comps \in [1..n -> ClockValues], widths \in [1..n -> 1..MaxPad] :
                TimeToSeconds(comps, widths)
       \/ \E time_str \in ClockStrings : TimeToSecondsOf(time_str)
       \/ \E url \in LinkUrls, time_str \in LinkClocks :
             BuildTimestampLink(url, time_str)

HelperSpec == Init /\ [][HelperNext]_vars

(* Serving over transcripts longer than the excerpt: the word "a", then a  *)
(* word of MaxTextLen characters.                                          *)
LongText == <<"a", " ">> \o TextOf(MaxTextLen, "counting")

LongRec ==
    [episode_id |-> "ep1", episode_title |-> <<"x">>, episode_number |-> 2,
     transcript |-> LongText, video_url |-> YouTubeUrl]

LongFiles == UNION {[1..n -> {LongRec, Rec3}] : n \in 0..MaxFileLen}

LongInit ==
    \E file \in LongFiles :
        /\ LET st == LoadLoop([eps |-> <<>>, order |-> <<>>, docs |-> <<>>,
                               raised |-> FALSE], file)
           IN  /\ episodes = st.eps
               /\ epOrder = st.order
               /\ indexDocs = IndexDocuments(<<>>, st.docs)
        /\ log = file
        /\ lastIngest = "ok"
        /\ call = [c \in Callers |-> IdleCall]
        /\ probe = NoProbe
        /\ host = NoHost

LongSpec == LongInit /\ [][ServingNext]_vars

(* The ingestion operations of TranscriptManager, on episodes given as a   *)
(* whole transcript, as a list of timestamped segments, or in a file.      *)
Seg1 ==
    [text |-> <<"a">>, start_time |-> <<"0", "0", ":", "0", "0">>,
     end_time |-> <<"0", "1", ":", "0", "0">>, video_url |-> YouTubeUrl,
     audio_url |-> NoUrl]

Seg2 ==
    [text |-> <<"b">>, start_time |-> <<"0", "1", ":", "0", "0">>,
     end_time |-> <<"0", "2", ":", "0", "0">>, video_url |-> YouTubeUrl,
     audio_url |-> NoUrl]

SegmentLists == {<<>>, <<Seg1>>, <<Seg1, Seg2>>}

ManagerNext ==
    \/ \E file \in Files : load_from_json(TRUE, file)
    \/ load_from_json(FALSE, <<>>)
    \/ \E r \in {x \in Records : WellFormed(x)} :
          add_transcript(r.episode_id, r.episode_title, r.episode_number,
                         r.transcript, Get(r, "video_url", NoUrl),
                         Get(r, "audio_url", NoUrl))
    \/ \E id \in {"ep1", "ep2"}, segments \in SegmentLists :
          add_transcript_with_segments(id, <<"x">>, 1, segments)

ManagerSpec == Init /\ [][ManagerNext]_vars

-----------------------------------------------------------------------------
(* Properties *)

IndexRaised(cs) == \E n \in 1..Len(cs.thrown) : cs.thrown[n].by = "index"

GeneratorRaised(cs) == \E n \in 1..Len(cs.thrown) : cs.thrown[n].by = "generator"

(* The search of this call has returned, and returned no hit. *)
ZeroHits(cs) ==
    /\ cs.pc \notin {"Idle", "Searching"}
    /\ cs.searchCalls # <<>>
    /\ ~IndexRaised(cs)
    /\ cs.search_results = <<>>

(* C1: when the index returns zero hits, the call ends Empty: it returns   *)
(* the fixed sentinel answer, no sources and context_used = 0, and the     *)
(* generator has not been called.                                          *)
C1_ZeroHitsSentinel ==
    \A c \in Callers :
        ZeroHits(call[c]) =>
            /\ call[c].pc = "Empty"
            /\ call[c].ret =
                 <<[answer |-> Sentinel, sources |-> <<>>, context_used |-> 0]>>
            /\ call[c].raised = <<>>
            /\ call[c].genCalls = <<>>

(* A real question finds nothing in a corpus that is not empty. *)
C1_Witness ==
    \E c \in Callers :
        /\ ZeroHits(call[c])
        /\ indexDocs # <<>>
        /\ ~IsBlank(call[c].question)
        /\ call[c].max_context_segments >= 1

(* C2: a call that returns a result from hits has one source per hit, in   *)
(* the order of the hits, which is the order the index ranked them in;     *)
(* context_used is the number of sources.                                  *)
C2_SourcesFollowHits ==
    \A c \in Callers :
        call[c].pc = "Done" =>
            LET hits == call[c].search_results
                res == call[c].ret[1]
            IN  /\ hits # <<>>
                /\ hits \in SearchOutcomes(indexDocs, call[c].question,
                                           call[c].max_context_segments)
                /\ Len(res.sources) = Len(hits)
                /\ res.context_used = Len(res.sources)
                /\ \A n \in 1..Len(hits) :
                      /\ res.sources[n].episode = hits[n].episode_title
                      /\ res.sources[n].episode_number = hits[n].episode_number
                      /\ Len(hits[n].text) <= ExcerptLen
                            => res.sources[n].segment = hits[n].text

(* Two hits that give different sources, so that their order shows. *)
C2_Witness ==
    \E c \in Callers :
        /\ call[c].pc = "Done"
        /\ Len(call[c].ret[1].sources) = 2
        /\ call[c].ret[1].sources[1] # call[c].ret[1].sources[2]
        /\ call[c].search_results[1] # indexDocs[1]

(* C3: the index reflects only the latest transcript of an episode_id: no  *)
(* search returns a hit with a text that is not the registry's transcript  *)
(* of its episode, nor two hits of one episode_id.                         *)
C3_OnlyLatestRetrievable ==
    \A q \in Questions, k \in 1..DefaultMaxContext :
        \A hits \in SearchOutcomes(indexDocs, q, k) :
            \A m, n \in 1..Len(hits) :
                /\ hits[n].episode_id \in DOMAIN episodes
                /\ hits[n].text = episodes[hits[n].episode_id].transcript
                /\ m # n => hits[m].episode_id # hits[n].episode_id

(* The last record of the history that carries this episode_id. *)
LatestRecord(id) ==
    LET last == CHOOSE n \in 1..Len(log) :
                    /\ log[n].episode_id = id
                    /\ \A m \in (n + 1)..Len(log) : log[m].episode_id # id
    IN  log[last]

(* C4: the registry holds exactly the episode_ids that were ingested, each *)
(* with the title, number, URLs and transcript of its latest record, and   *)
(* list_episodes has exactly one entry per id, with the latest title and   *)
(* number.                                                                 *)
C4_RegistryHoldsLatest ==
    /\ DOMAIN episodes = {log[n].episode_id : n \in 1..Len(log)}
    /\ \A id \in DOMAIN episodes :
          LET r == LatestRecord(id) IN
          /\ episodes[id].title = r.episode_title
          /\ episodes[id].number = r.episode_number
          /\ episodes[id].transcript = r.transcript
          /\ episodes[id].video_url = Get(r, "video_url", NoUrl)
          /\ episodes[id].audio_url = Get(r, "audio_url", NoUrl)
          /\ Cardinality({p \in 1..Len(list_episodes) :
                            list_episodes[p].episode_id = id}) = 1
          /\ \A p \in 1..Len(list_episodes) :
                list_episodes[p].episode_id = id =>
                    /\ list_episodes[p].title = r.episode_title
                    /\ list_episodes[p].number = r.episode_number
    /\ Len(list_episodes) = Cardinality(DOMAIN episodes)

(* An episode_id was ingested twice, with different metadata. *)
C4_Witness ==
    \E m, n \in 1..Len(log) :
        /\ m < n
        /\ log[m].episode_id = log[n].episode_id
        /\ log[m].episode_title # log[n].episode_title
        /\ log[m].episode_number # log[n].episode_number
        /\ Cardinality(DOMAIN episodes) = 1

(* C5: a bulk load that fails on a malformed record commits nothing: the   *)
(* registry and the index are as they were before the call.                *)
C5_FailedLoadCommitsNothing ==
    [][lastIngest' = "KeyError" =>
          /\ episodes' = episodes
          /\ indexDocs' = indexDocs]_vars

(* C6: a blank or whitespace-only question causes no call of the index     *)
(* and no call of the generator.                                           *)
C6_BlankQuestionRejected ==
    \A c \in Callers :
        IsBlank(call[c].question) =>
            /\ call[c].searchCalls = <<>>
            /\ call[c].genCalls = <<>>

(* C7: the index is queried with max_results = 3 when                      *)
(* max_context_segments <= 0, and with max_context_segments otherwise.     *)
C7_NonPositiveMeansDefault ==
    \A c \in Callers :
        \A n \in 1..Len(call[c].searchCalls) :
            call[c].searchCalls[n].max_results =
                IF call[c].max_context_segments <= 0
                THEN DefaultMaxContext
                ELSE call[c].max_context_segments

(* C8: when the generator raises, the call ends with that exception and    *)
(* returns nothing; within one call the index and the generator are each   *)
(* called at most once.                                                    *)
C8_GeneratorFailurePropagates ==
    \A c \in Callers :
        /\ Len(call[c].searchCalls) <= 1
        /\ Len(call[c].genCalls) <= 1
        /\ GeneratorRaised(call[c]) =>
              /\ call[c].pc = "Failed"
              /\ call[c].ret = <<>>
              /\ Len(call[c].raised) = 1
              /\ call[c].raised[1].error =
                    call[c].thrown[Len(call[c].thrown)].error

C8_Witness ==
    \E c \in Callers :
        /\ GeneratorRaised(call[c])
        /\ Len(call[c].search_results) = 2
        /\ Len(call[c].genCalls) = 1

(* C9: the failure that leaves a failed call names the stage that failed,  *)
(* Searching or Generating.                                                *)
C9_FailureNamesStage ==
    \A c \in Callers :
        call[c].pc = "Failed" =>
            /\ Len(call[c].raised) = 1
            /\ "stage" \in DOMAIN call[c].raised[1]
            /\ call[c].raised[1].stage =
                  IF IndexRaised(call[c]) THEN "Searching" ELSE "Generating"

(* The stage changes a call may make. *)
StageOrder(from, to) ==
    \/ from = "Idle" /\ to = "Searching"
    \/ from = "Searching" /\ to \in {"Empty", "Assembling", "Failed"}
    \/ from = "Assembling" /\ to = "Generating"
    \/ from = "Generating" /\ to \in {"Done", "Failed"}
    \/ from \in Terminal /\ to = "Idle"

(* C10: a call goes Idle -> Searching -> (Empty | Assembling -> Generating *)
(* -> Done) | Failed.  The search is the first call of a collaborator, the *)
(* generator is called only when all hits of a non-empty result are        *)
(* assembled, and a call that was entered ends in Empty, Done or Failed,   *)
(* having returned or raised, never both.                                  *)
C10_StageOrder ==
    /\ [][\A c \in Callers :
            /\ call'[c].pc # call[c].pc => StageOrder(call[c].pc, call'[c].pc)
            /\ Len(call'[c].searchCalls) > Len(call[c].searchCalls) =>
                  /\ call[c].pc = "Searching"
                  /\ call[c].searchCalls = <<>>
                  /\ call[c].genCalls = <<>>
            /\ Len(call'[c].genCalls) > Len(call[c].genCalls) =>
                  /\ call[c].pc = "Generating"
                  /\ Len(call[c].searchCalls) = 1
                  /\ call[c].search_results # <<>>
                  /\ call[c].i = Len(call[c].search_results)
                  /\ Len(call[c].sources) = Len(call[c].search_results)
                  /\ Len(call[c].context_parts) = Len(call[c].search_results)]_vars
    /\ [](\A c \in Callers :
            /\ call[c].pc \in {"Empty", "Done"} =>
                  Len(call[c].ret) = 1 /\ call[c].raised = <<>>
            /\ call[c].pc = "Failed" =>
                  call[c].ret = <<>> /\ Len(call[c].raised) = 1
            /\ call[c].pc \notin Terminal =>
                  call[c].ret = <<>> /\ call[c].raised = <<>>)
    /\ \A c \in SeqCallers :
          (call[c].pc \in {"Searching", "Assembling", "Generating"})
              ~> (call[c].pc \in Terminal)

(* A call that assembled two hits and was answered. *)
C10_Witness ==
    \E c \in Callers :
        /\ call[c].pc = "Done"
        /\ call[c].i = 2
        /\ Len(call[c].genCalls) = 1

(* The sources a call builds from the hits the index returned to it when   *)
(* no other call runs: one per hit, in hit order, from the Registry.       *)
SoloSources(cs) ==
    [n \in 1..Len(cs.search_results) |-> BuildSource(cs.search_results[n], episodes)]

(* The context a call passes to the generator when no other call runs. *)
SoloContext(cs) ==
    Join([n \in 1..Len(cs.search_results) |->
            ContextBlock(Get(cs.search_results[n], "episode_title", <<"Unknown">>),
                         Get(cs.search_results[n], "text", <<>>))])

(* C11: with calls of answer_question interleaved over a Registry and an   *)
(* Index that are not being written, each call returns the result it would *)
(* return alone: the hits are those of its own question and limit, the     *)
(* sources and the generator's context are built from its own hits only,   *)
(* context_used counts its own hits, and a call with no hit returns the    *)
(* sentinel result.                                                        *)
C11_CallsDoNotInterfere ==
    \A c \in Callers :
        LET cs == call[c] IN
        /\ (cs.pc \in {"Assembling", "Generating", "Done"} =>
               cs.search_results \in
                   SearchOutcomes(indexDocs, cs.question, cs.max_context_segments))
        /\ (cs.pc = "Empty" => cs.ret = <<EmptyResult>>)
        /\ (cs.genCalls # <<>> =>
               cs.genCalls = <<[question |-> cs.question,
                                context |-> SoloContext(cs),
                                max_tokens |-> MaxTokens]>>)
        /\ (cs.pc = "Done" =>
               /\ Len(cs.ret) = 1
               /\ cs.ret[1].answer \in Answers
               /\ cs.ret[1].sources = SoloSources(cs)
               /\ cs.ret[1].context_used = Len(cs.search_results))

(* Both callers were inside the loop over their hits at once, with         *)
(* different questions, and both have returned.                            *)
C11_Witness ==
    /\ call[1].pc = "Done"
    /\ call[2].pc = "Done"
    /\ call[1].question # call[2].question
    /\ call[1].ret[1].sources # call[2].ret[1].sources

(* C12: answer_question and list_episodes are reads: no step of a call,    *)
(* from its entry to its return and whatever its outcome, changes the      *)
(* Registry or the documents of the Index.                                 *)
C12_CallsAreReads ==
    [][(\E c \in Callers : call'[c] # call[c]) =>
          /\ episodes' = episodes
          /\ indexDocs' = indexDocs]_vars

(* A call over two ingested episodes has built its sources from the        *)
(* Registry and then failed in the generator.                              *)
C12_Witness ==
    \E c \in Callers :
        /\ call[c].pc = "Failed"
        /\ GeneratorRaised(call[c])
        /\ Cardinality(DOMAIN episodes) = 2
        /\ Len(indexDocs) = 2

(* The place of an id's first ingestion in the history. *)
FirstIngested(id) ==
    CHOOSE n \in 1..Len(log) :
        /\ log[n].episode_id = id
        /\ \A m \in 1..(n - 1) : log[m].episode_id # id

(* C13: list_episodes returns every episode of the Registry once, with its *)
(* title and number, in ascending order of number; episodes with equal     *)
(* numbers are in the order of their insertion.                            *)
C13_ListSortedStable ==
    \A c \in Callers :
        call[c].pc = "Listed" =>
            LET L == call[c].ret[1].episodes IN
            /\ call[c].raised = <<>>
            /\ Len(L) = Cardinality(DOMAIN episodes)
            /\ {L[p].episode_id : p \in 1..Len(L)} = DOMAIN episodes
            /\ \A p \in 1..Len(L) :
                  /\ L[p].title = episodes[L[p].episode_id].title
                  /\ L[p].number = episodes[L[p].episode_id].number
            /\ \A p, q \in 1..Len(L) :
                  p < q =>
                     \/ L[p].number < L[q].number
                     \/ /\ L[p].number = L[q].number
                        /\ FirstIngested(L[p].episode_id)
                              < FirstIngested(L[q].episode_id)

(* Three episodes inserted with numbers 3, 1, 2 are listed 1, 2, 3. *)
C13_Witness ==
    \E c \in Callers :
        /\ call[c].pc = "Listed"
        /\ Len(log) = 3
        /\ <<log[1].episode_number, log[2].episode_number, log[3].episode_number>>
              = <<3, 1, 2>>
        /\ Cardinality(DOMAIN episodes) = 3
        /\ LET L == call[c].ret[1].episodes
           IN  <<L[1].number, L[2].number, L[3].number>> = <<1, 2, 3>>

(* C14: list_episodes calls neither the Index nor the generator, and on an *)
(* empty Registry it returns the empty sequence without failing.           *)
C14_ListCallsNoCollaborator ==
    \A c \in Callers :
        /\ call[c].pc = "Listed" =>
              /\ call[c].searchCalls = <<>>
              /\ call[c].genCalls = <<>>
              /\ call[c].thrown = <<>>
        /\ (call[c].pc \in Returned /\ call[c].searchCalls = <<>>) =>
              /\ call[c].pc = "Listed"
              /\ call[c].raised = <<>>
              /\ (DOMAIN episodes = {} => call[c].ret = <<[episodes |-> <<>>]>>)

(* list_episodes has returned on the empty corpus. *)
C14_Witness ==
    \E c \in Callers :
        /\ call[c].pc = "Listed"
        /\ DOMAIN episodes = {}
        /\ indexDocs = <<>>

(* C15: no step removes an episode_id from the Registry, and the entry of  *)
(* an id changes only in a step that ingests a record of that id.          *)
C15_RegistryNeverShrinks ==
    [][\A id \in DOMAIN episodes :
          /\ id \in DOMAIN episodes'
          /\ episodes'[id] # episodes[id] =>
                \E n \in (Len(log) + 1)..Len(log') : log'[n].episode_id = id]_vars

(* An entry was overwritten by re-ingestion, another id was ingested or    *)
(* not, and a list call has run over the Registry since.                   *)
C15_Witness ==
    \E c \in Callers :
        /\ call[c].pc = "Listed"
        /\ Len(log) = 2
        /\ log[1].episode_id = log[2].episode_id
        /\ log[1].episode_title # log[2].episode_title
        /\ DOMAIN episodes = {log[1].episode_id}

(* C16: for every source of a returned result whose episode has a          *)
(* non-empty video or audio URL in the Registry, the emitted link is the   *)
(* deep link _build_timestamp_link makes of that URL and the source's      *)
(* timestamp.                                                              *)
C16_LinksAreDeepLinks ==
    \A c \in Callers :
        call[c].pc = "Done" =>
            \A n \in 1..Len(call[c].ret[1].sources) :
                LET source == call[c].ret[1].sources[n]
                    episode == Get(episodes, call[c].search_results[n].episode_id, <<>>)
                    video_url == Get(episode, "video_url", NoUrl)
                    audio_url == Get(episode, "audio_url", NoUrl)
                IN  /\ video_url # NoUrl =>
                          /\ "video_link" \in DOMAIN source
                          /\ [value |-> source.video_link]
                                = build_timestamp_link(video_url, source.timestamp)
                    /\ audio_url # NoUrl =>
                          /\ "audio_link" \in DOMAIN source
                          /\ [value |-> source.audio_link]
                                = build_timestamp_link(audio_url, source.timestamp)

(* The Registry entry of a hit's episode, empty on a miss. *)
EpisodeOfHit(hit) == Get(episodes, Get(hit, "episode_id", ""), <<>>)

IsOrphan(hit) == Get(hit, "episode_id", "") \notin DOMAIN episodes

(* C17: in every source of a returned result, the key video_link is        *)
(* present exactly when the Registry holds a non-empty video_url for the   *)
(* hit's episode, and audio_link exactly when it holds a non-empty         *)
(* audio_url; a key that is present is never the empty string, and a hit   *)
(* whose episode is not in the Registry has neither key.                   *)
C17_LinkKeysIffUrl ==
    \A c \in Callers :
        call[c].pc = "Done" =>
            \A n \in 1..Len(call[c].ret[1].sources) :
                LET source == call[c].ret[1].sources[n]
                    episode == EpisodeOfHit(call[c].search_results[n])
                IN  /\ "video_link" \in DOMAIN source
                          <=> Get(episode, "video_url", NoUrl) # NoUrl
                    /\ "audio_link" \in DOMAIN source
                          <=> Get(episode, "audio_url", NoUrl) # NoUrl
                    /\ "video_link" \in DOMAIN source => source.video_link # NoUrl
                    /\ "audio_link" \in DOMAIN source => source.audio_link # NoUrl

(* One result holds a source with a video link and no audio link, and a    *)
(* source of a hit whose episode the Registry does not hold.               *)
C17_Witness ==
    \E c \in Callers :
        /\ call[c].pc = "Done"
        /\ \E n, m \in 1..Len(call[c].ret[1].sources) :
              /\ "video_link" \in DOMAIN call[c].ret[1].sources[n]
              /\ "audio_link" \notin DOMAIN call[c].ret[1].sources[n]
              /\ IsOrphan(call[c].search_results[m])
              /\ "video_link" \notin DOMAIN call[c].ret[1].sources[m]

(* C18: a Registry miss is not an exception.  get_episode returns the      *)
(* episode for a known id and nothing for an unknown one, without raising; *)
(* a call whose hits include one whose episode_id is not in the Registry   *)
(* raises only what a collaborator raised, and when it returns it has one  *)
(* source per hit, the source of such a hit carrying its title and excerpt *)
(* and no link key.                                                        *)
C18_RegistryMissIsNotAnError ==
    /\ probe.fn = "get_episode" =>
          /\ "value" \in DOMAIN probe.out
          /\ probe.arg \notin DOMAIN episodes => probe.out.value = <<>>
          /\ probe.arg \in DOMAIN episodes =>
                probe.out.value = <<episodes[probe.arg]>>
    /\ \A c \in Callers :
          (\E n \in 1..Len(call[c].search_results) :
                IsOrphan(call[c].search_results[n])) =>
              /\ call[c].raised # <<>> => call[c].thrown # <<>>
              /\ call[c].pc \in Terminal => call[c].pc \in {"Done", "Failed"}
              /\ call[c].pc = "Failed" => GeneratorRaised(call[c])
              /\ call[c].pc = "Done" =>
                    /\ Len(call[c].ret[1].sources) = Len(call[c].search_results)
                    /\ \A n \in 1..Len(call[c].search_results) :
                          IsOrphan(call[c].search_results[n]) =>
                              LET source == call[c].ret[1].sources[n]
                                  hit == call[c].search_results[n]
                              IN  /\ source.episode = hit.episode_title
                                  /\ source.segment = hit.text
                                  /\ "video_link" \notin DOMAIN source
                                  /\ "audio_link" \notin DOMAIN source

(* get_episode was asked for an id the Registry does not hold, and a call  *)
(* with a hit of an unknown episode has returned.                          *)
C18_Witness ==
    /\ probe.fn = "get_episode"
    /\ probe.arg \notin DOMAIN episodes
    /\ \E c \in Callers :
          /\ call[c].pc = "Done"
          /\ \E n \in 1..Len(call[c].search_results) :
                /\ IsOrphan(call[c].search_results[n])
                /\ "episode_id" \notin DOMAIN call[c].search_results[n]

(* C19: the excerpt of a source is the hit's text unchanged when the text  *)
(* has at most 200 characters, and otherwise its first 200 characters      *)
(* followed by "...", 203 characters in all.                               *)
C19_ExcerptLength ==
    probe.fn = "segment" =>
        /\ Len(probe.arg) <= 200 => probe.out = probe.arg
        /\ Len(probe.arg) > 200 =>
              /\ Len(probe.out) = 203
              /\ SubSeq(probe.out, 1, 200) = SubSeq(probe.arg, 1, 200)
              /\ SubSeq(probe.out, 201, 203) = <<".", ".", ".">>

(* A text of exactly 200 characters came back whole. *)
C19_Witness ==
    /\ probe.fn = "segment"
    /\ Len(probe.arg) = 200
    /\ Len(probe.out) = 200
    /\ probe.arg[7] # probe.arg[8]

(* C20: _time_to_seconds returns M*60+S on "M:S" and H*3600+M*60+S on      *)
(* "H:M:S", for non-negative integer components written in decimal with or *)
(* without leading zeros, components of 60 and more included.              *)
C20_ClockValue ==
    probe.fn = "_time_to_seconds" =>
        LET comps == probe.comps IN
        /\ Len(comps) = 2 =>
              probe.out = [value |-> comps[1] * 60 + comps[2]]
        /\ Len(comps) = 3 =>
              probe.out = [value |-> comps[1] * 3600 + comps[2] * 60 + comps[3]]

(* "1:75:03" gave 3600 + 4500 + 3. *)
C20_Witness ==
    /\ probe.fn = "_time_to_seconds"
    /\ probe.arg = <<"1", ":", "7", "5", ":", "0", "3">>
    /\ probe.out = [value |-> 8103]

(* The number of ':'-separated components of a string. *)
Components(time_str) ==
    Cardinality({n \in 1..Len(time_str) : time_str[n] = ":"}) + 1

(* C21: on a string whose number of ':'-separated components is not 2 or   *)
(* 3, _time_to_seconds returns 0 and does not raise.                       *)
C21_OtherShapesGiveZero ==
    (probe.fn = "_time_to_seconds" /\ Components(probe.arg) \notin {2, 3}) =>
        probe.out = [value |-> 0]

(* "bad" gave 0. *)
C21_Witness ==
    /\ probe.fn = "_time_to_seconds"
    /\ probe.arg = <<"b", "a", "d">>
    /\ probe.out = [value |-> 0]

(* C22: _build_timestamp_link returns "" for an empty URL; otherwise, with *)
(* seconds the value of _time_to_seconds on the clock string (whose error  *)
(* it passes on), it returns the URL followed by "&t=<seconds>" when the   *)
(* URL contains youtube.com or youtu.be and a "?", by "?t=<seconds>" when  *)
(* it contains one of the two and no "?", and by "#t=<seconds>" for        *)
(* Spotify and every other URL.                                            *)
C22_LinkFollowsReference ==
    probe.fn = "_build_timestamp_link" =>
        LET url == probe.url
            seconds == time_to_seconds(probe.arg)
            has(piece) == \E n \in 1..Len(url) : url[n] = piece
            suffix == IF has("youtube.com") \/ has("youtu.be")
                      THEN IF has("?") THEN <<"&", "t=">> ELSE <<"?", "t=">>
                      ELSE <<"#", "t=">>
        IN  IF url = <<>> THEN probe.out = [value |-> <<>>]
            ELSE IF "raised" \in DOMAIN seconds THEN probe.out = seconds
            ELSE probe.out = [value |-> url \o suffix \o str(seconds.value)]

(* "https://youtube.com/watch?v=X" with "01:00" gave "...?v=X&t=60". *)
C22_Witness ==
    /\ probe.fn = "_build_timestamp_link"
    /\ probe.url = YouTubeUrl
    /\ probe.arg = <<"0", "1", ":", "0", "0">>
    /\ probe.out = [value |-> <<"https://", "youtube.com", "/watch", "?", "v=X",
                                "&", "t=", "6", "0">>]

(* The host of a URL: the pieces between the scheme and the path. *)
Host(url) ==
    LET starts == {n \in 2..Len(url) : url[n] \in PathPieces \cup {"?", "#"}}
        end == IF starts = {} THEN Len(url) + 1
               ELSE CHOOSE n \in starts : \A m \in starts : n <= m
    IN  SubSeq(url, 2, end - 1)

(* C23: _build_timestamp_link appends the query parameter ("?t=" or "&t=") *)
(* if and only if the host of the URL contains youtube.com or youtu.be;    *)
(* every other URL gets the fragment "#t=".                                *)
C23_StrategyFromHostOnly ==
    (/\ probe.fn = "_build_timestamp_link"
     /\ probe.url # NoUrl
     /\ "value" \in DOMAIN probe.out) =>
        LET hostPieces == Host(probe.url)
            mark == probe.out.value[Len(probe.url) + 1]
            youtubeHost == \E n \in 1..Len(hostPieces) : hostPieces[n] \in {"youtube.com", "youtu.be"}
        IN  /\ mark \in {"?", "&"} <=> youtubeHost
            /\ mark = "#" <=> ~youtubeHost

(* C30: _time_to_seconds returns an integer >= 0 on every string and never *)
(* raises.                                                                 *)
C30_ClockIsTotal ==
    probe.fn = "_time_to_seconds" =>
        /\ "value" \in DOMAIN probe.out
        /\ probe.out.value >= 0

(* One labeled block per hit, in order, with a blank line between blocks. *)
RECURSIVE BlocksJoined(_)
BlocksJoined(hits) ==
    IF hits = <<>> THEN <<>>
    ELSE LET block == <<"[Episode: ">> \o Head(hits).episode_title \o <<"] ">>
                        \o Head(hits).text
         IN  IF Len(hits) = 1 THEN block
             ELSE block \o <<"\n\n">> \o BlocksJoined(Tail(hits))

(* C24: the context passed to the generator is one block                   *)
(* "[Episode: <title>] <text>" per hit, in hit order, each with the whole  *)
(* text of the hit, joined by a blank line; a returned result counts as    *)
(* many hits in context_used as there are blocks.                          *)
C24_ContextBlocks ==
    \A c \in Callers :
        /\ call[c].genCalls # <<>> =>
              /\ Len(call[c].genCalls) = 1
              /\ call[c].genCalls[1].context = BlocksJoined(call[c].search_results)
        /\ call[c].pc = "Done" =>
              /\ call[c].ret[1].context_used = Len(call[c].search_results)
              /\ Len(call[c].context_parts) = call[c].ret[1].context_used

(* The generator got two blocks, one of a text longer than the excerpt. *)
C24_Witness ==
    \E c \in Callers :
        /\ call[c].pc = "Done"
        /\ call[c].ret[1].context_used = 2
        /\ \E n \in 1..2 : Len(call[c].search_results[n].text) > 200
        /\ Len(call[c].genCalls[1].context) > 200

(* C28: while no ingestion has failed, the Registry and the Index agree:   *)
(* every episode_id of the Registry has a document in the Index, and every *)
(* document of the Index has its episode_id in the Registry.               *)
C28_RegistryAndIndexAgree ==
    lastIngest \in {"none", "ok"} =>
        /\ \A id \in DOMAIN episodes :
              \E n \in 1..Len(indexDocs) : indexDocs[n].episode_id = id
        /\ \A n \in 1..Len(indexDocs) : indexDocs[n].episode_id \in DOMAIN episodes

(* C29: in every source of a returned result, the title and the number are *)
(* those the Registry holds for the hit's episode_id.                      *)
C29_SourceTitleIsCurrent ==
    \A c \in Callers :
        call[c].pc = "Done" =>
            \A n \in 1..Len(call[c].ret[1].sources) :
                LET source == call[c].ret[1].sources[n]
                    id == call[c].search_results[n].episode_id
                IN  /\ id \in DOMAIN episodes
                    /\ source.episode = episodes[id].title
                    /\ source.episode_number = episodes[id].number

-----------------------------------------------------------------------------
(* Hosting layers. *)

(* An invocation of handler has started: load_chatbot has been called. *)
Invoked == host.kind = "lambda" /\ host.pc = "Idle" /\ host' # host

(* C26: within one Lambda container the transcripts are ingested           *)
(* successfully at most once: once load_chatbot has succeeded, every later *)
(* invocation reuses the cached chatbot and leaves its Registry and Index  *)
(* alone; while the cache is unset, an invocation attempts initialization, *)
(* and a failed initialization leaves the cache unset.                     *)
C26_IngestedAtMostOnce ==
    /\ [](host.kind = "lambda" => host.ingested <= 1)
    /\ [][Invoked =>
            /\ host.chatbot # "None" =>
                  /\ host'.lastInit = "reused"
                  /\ host'.chatbot = host.chatbot
                  /\ host'.ingested = host.ingested
                  /\ UNCHANGED <<episodes, epOrder, indexDocs>>
            /\ host.chatbot = "None" =>
                  /\ host'.lastInit # "reused"
                  /\ host'.chatbot = "None" <=> host'.lastInit # "ok"]_vars

(* An invocation reused the chatbot that an earlier one had loaded. *)
C26_Witness ==
    /\ host.kind = "lambda"
    /\ host.lastInit = "reused"
    /\ host.ingested = 1
    /\ episodes # <<>>

(* C27: handler answers every failure with a response: 400 for a body that *)
(* is not valid JSON, 400 and no engine or index call for a blank question *)
(* or query, 404 for an unmatched method and path, and 500 for every other *)
(* exception, a failed initialization included, whatever the path.         *)
C27_FailuresBecomeResponses ==
    (host.kind = "lambda" /\ host.pc = "Idle" /\ host.response # <<>>) =>
        LET status == host.response[1].statusCode
            http_method == Get(host.event, "httpMethod", "GET")
            path == Get(host.event, "path", "/")
            sent == Get(host.event, "body", [json |-> "object", value |-> <<>>])
            failedInit == host.lastInit \notin {"ok", "reused"}
            posted == path \in {"/api/ask", "/api/search"} /\ http_method = "POST"
            matched == path = "/" \/ posted
                       \/ (path = "/api/episodes" /\ http_method = "GET")
            key == IF path = "/api/ask" THEN "question" ELSE "query"
            blank == /\ posted
                     /\ sent.json = "object"
                     /\ Strip(Get(sent.value, key, <<>>)) = <<>>
        IN  IF failedInit THEN status = 500
            ELSE IF ~matched THEN status = 404
            ELSE IF posted /\ sent.json = "invalid" THEN status = 400
            ELSE IF blank THEN status = 400 /\ host.called = "none"
            ELSE IF "exception" \in DOMAIN host.response[1].body THEN status = 500
            ELSE status = 200

(* A request handler can reach the chatbot of the layer: the Lambda        *)
(* handler is past load_chatbot, or the API is serving requests.           *)
Reachable ==
    \/ host.kind = "lambda" /\ host.pc = "Routing"
    \/ host.kind = "api" /\ host.server = "Serving"

(* The last request was answered by the chatbot: /api/ask or /api/episodes. *)
Answered == host.called \in {"answer_question", "list_episodes"}

(* C25, as stated: a request is only ever answered from a chatbot whose    *)
(* transcript load finished successfully.                                  *)
C25_ServedOnlyAfterLoad ==
    (Reachable \/ Answered) => host.chatbot = "ok" /\ host.ingested = 1

(* C25: a request handler only ever reaches a chatbot whose initialization *)
(* finished without an error, never one whose load failed: its load        *)
(* finished successfully or, in the Lambda handler only, there was neither *)
(* a bucket nor a sample file and no load was attempted, and the chatbot   *)
(* is empty.                                                               *)
C25_ServedOnlyAfterInit ==
    (Reachable \/ Answered) =>
        /\ host.chatbot = "ok"
        /\ lastIngest \in {"ok", "none"}
        /\ \/ host.ingested = 1 /\ lastIngest = "ok"
           \/ /\ host.kind = "lambda"
              /\ host.ingested = 0
              /\ episodes = <<>>
              /\ indexDocs = <<>>

(* /api/ask was answered from the transcripts that were loaded. *)
C25_Witness ==
    /\ host.called = "answer_question"
    /\ host.ingested = 1
    /\ host.response[1].statusCode = 200
    /\ host.response[1].body.context_used > 0

====
